---- MODULE Spec2Model ----
(***************************************************************************)
(* Grafana alerts board: the aggregation and deduplication engine of       *)
(* app.py (alert_key, detect_dc, aggregate_by_dc, fetch_from_grafana,      *)
(* _refresh_now, refresh_loop, api_alerts, healthz) and the window report  *)
(* builder of reports.py (_summary_totals, _detail_alerts).                *)
(*                                                                         *)
(* Strings are atoms; Chars gives the characters of every string the model *)
(* uses, so that lower(), strip() and the substring test act on text.      *)
(***************************************************************************)
EXTENDS Integers, Sequences, FiniteSets, TLC

\* ------------------------------------------------------------------ text

\* The characters of a string of the model's vocabulary.
Chars(s) ==
    CASE s = "" -> <<>>
      [] s = "  " -> <<" ", " ">>
      [] s = "f1" -> <<"f", "1">>
      [] s = " f1 " -> <<" ", "f", "1", " ">>
      [] s = "f2" -> <<"f", "2">>
      [] s = "TEHRAN" -> <<"T", "E", "H", "R", "A", "N">>
      [] s = "Shiraz" -> <<"S", "h", "i", "r", "a", "z">>
      [] s = "x" -> <<"x">>
      [] s = "shz tbz" -> <<"s", "h", "z", " ", "t", "b", "z">>
      [] s = "stable" -> <<"s", "t", "a", "b", "l", "e">>
      [] s = "teh" -> <<"t", "e", "h">>
      [] s = "Tehran" -> <<"T", "e", "h", "r", "a", "n">>
      [] s = "Tabriz" -> <<"T", "a", "b", "r", "i", "z">>
      [] s = "Mashhad" -> <<"M", "a", "s", "h", "h", "a", "d">>
      [] s = "Esfahan" -> <<"E", "s", "f", "a", "h", "a", "n">>
      [] s = "firing" -> <<"f", "i", "r", "i", "n", "g">>
      [] s = "active" -> <<"a", "c", "t", "i", "v", "e">>
      [] s = "suppressed" -> <<"s", "u", "p", "p", "r", "e", "s", "s", "e", "d">>
      [] s = "Firing" -> <<"F", "i", "r", "i", "n", "g">>
      [] s = "unprocessed" -> <<"u", "n", "p", "r", "o", "c", "e", "s", "s", "e", "d">>
      [] s = "cpu" -> <<"c", "p", "u">>
      [] s = "disk" -> <<"d", "i", "s", "k">>
      [] s = "unknown" -> <<"u", "n", "k", "n", "o", "w", "n">>

\* str.lower() on one character.
LowerChar(c) ==
    CASE c = "A" -> "a"
      [] c = "B" -> "b"
      [] c = "C" -> "c"
      [] c = "D" -> "d"
      [] c = "E" -> "e"
      [] c = "F" -> "f"
      [] c = "G" -> "g"
      [] c = "H" -> "h"
      [] c = "I" -> "i"
      [] c = "J" -> "j"
      [] c = "K" -> "k"
      [] c = "L" -> "l"
      [] c = "M" -> "m"
      [] c = "N" -> "n"
      [] c = "O" -> "o"
      [] c = "P" -> "p"
      [] c = "Q" -> "q"
      [] c = "R" -> "r"
      [] c = "S" -> "s"
      [] c = "T" -> "t"
      [] c = "U" -> "u"
      [] c = "V" -> "v"
      [] c = "W" -> "w"
      [] c = "X" -> "x"
      [] c = "Y" -> "y"
      [] c = "Z" -> "z"
      [] OTHER -> c

\* app.py _lower: str(s or "").lower(), on characters.
_lower(cs) == [i \in 1..Len(cs) |-> LowerChar(cs[i])]

\* The Python test `needle in hay` on character sequences.
Contains(hay, needle) ==
    \E i \in 0..(Len(hay) - Len(needle)) :
        \A j \in 1..Len(needle) : hay[i + j] = needle[j]

\* str.strip(): leading and trailing blanks removed.
RECURSIVE LStrip(_)
LStrip(cs) ==
    IF cs # <<>> /\ cs[1] = " " THEN LStrip(Tail(cs)) ELSE cs

RECURSIVE RStrip(_)
RStrip(cs) ==
    IF cs # <<>> /\ cs[Len(cs)] = " " THEN RStrip(SubSeq(cs, 1, Len(cs) - 1)) ELSE cs

Strip(cs) == RStrip(LStrip(cs))

\* ------------------------------------------------------- configuration

DC_CANONICAL == <<"Tehran", "Shiraz", "Tabriz", "Mashhad", "Esfahan">>

DC_SYNONYMS(canon) ==
    CASE canon = "Tehran" -> <<<<"t", "e", "h", "r", "a", "n">>, <<"t", "e", "h">>>>
      [] canon = "Shiraz" -> <<<<"s", "h", "i", "r", "a", "z">>, <<"s", "i", "r", "a", "z">>, <<"s", "h", "z">>>>
      [] canon = "Tabriz" -> <<<<"t", "a", "b", "r", "i", "z">>, <<"t", "a", "b", "z">>, <<"t", "b", "z">>, <<"t", "a", "b">>>>
      [] canon = "Mashhad" -> <<<<"m", "a", "s", "h", "h", "a", "d">>, <<"m", "a", "s", "h", "h", "d">>>>
      [] canon = "Esfahan" -> <<<<"e", "s", "f", "a", "h", "a", "n">>, <<"e", "s", "f">>, <<"e", "s", "f", "_", "d", "c">>>>

Canon == {DC_CANONICAL[i] : i \in 1..Len(DC_CANONICAL)}

Buckets == Canon \cup {"Unassigned"}

\* DC_CANONICAL + ["Unassigned"], the order _refresh_now walks the buckets in.
BucketOrder == DC_CANONICAL \o <<"Unassigned">>


\* ---------------------------------------------------------- dictionaries

\* A Python dict is the sequence of its <<key, value>> items in insertion
\* order.  None and "" are both falsy and every reader below defaults with
\* `or`, so a missing key reads as "".
Has(d, k) == \E i \in DOMAIN d : d[i][1] = k

Get(d, k) == IF Has(d, k) THEN d[CHOOSE i \in DOMAIN d : d[i][1] = k][2] ELSE ""

\* d[k] = v: an existing key keeps its place, a new key goes last.
Put(d, k, v) ==
    IF Has(d, k)
    THEN [i \in DOMAIN d |-> IF d[i][1] = k THEN <<k, v>> ELSE d[i]]
    ELSE Append(d, <<k, v>>)

\* list(d.values())
Values(d) == [i \in DOMAIN d |-> d[i][2]]

\* Python `a or b` on strings.
Or(a, b) == IF a # "" THEN a ELSE b

\* Python None, for an absent alert or datetime.
None == [none |-> TRUE]

\* ------------------------------------------------------------ timestamps

\* An ISO-8601 string is <<wall clock, utc offset>> in ticks; <<>> is a
\* missing one.  Two strings with different offsets can name one instant.
TicksPerSecond == 2

\* app.py _parse_ts: the POSIX time of the string, 0.0 when missing.
_parse_ts(ts) == IF ts = <<>> THEN 0 ELSE ts[1] - ts[2]

\* A datetime is <<wall clock, utc offset>> as well (an ISO string is modelled
\* by the datetime it spells); NoDt is a None datetime.
NoDt == <<>>

\* app.py _parse_dt: the aware datetime of the string, None when missing.
_parse_dt(ts) == IF ts = <<>> THEN NoDt ELSE <<ts[1], ts[2]>>

\* The instant of an aware datetime, which is what datetimes compare by.
Instant(dt) == dt[1] - dt[2]

\* Python min(a, b) and max(a, b) on datetimes: the first argument on a tie.
DtMin(a, b) == IF Instant(b) < Instant(a) THEN b ELSE a

DtMax(a, b) == IF Instant(b) > Instant(a) THEN b ELSE a

\* ------------------------------------------------------ Identity Resolver

\* The label keys of the model in code-point order, the order sorted() puts them in.
LabelKeys == <<"DC", "alert_name", "alertname", "dc", "job">>

\* sorted(labels.items()): the items by key.
SortedItems(labels) ==
    LET F[i \in 0..Len(LabelKeys)] ==
            IF i = 0 THEN <<>>
            ELSE IF Has(labels, LabelKeys[i])
                 THEN Append(F[i - 1], <<LabelKeys[i], Get(labels, LabelKeys[i])>>)
                 ELSE F[i - 1]
    IN  F[Len(LabelKeys)]

\* json.dumps(items, separators=(",", ":")): the token sequence of the text.
json_dumps(items) ==
    LET F[i \in 0..Len(items)] ==
            IF i = 0 THEN <<"[">>
            ELSE F[i - 1] \o (IF i > 1 THEN <<",">> ELSE <<>>)
                          \o <<"[", items[i][1], ",", items[i][2], "]">>
    IN  F[Len(items)] \o <<"]">>

\* hashlib.sha1(blob).hexdigest(), taken as injective.
sha1(blob) == <<"sha1">> \o blob

\* alert_key with the labels serialized in insertion order (sorted() dropped).
alert_key_unsorted(raw) ==
    LET fp == Strip(Chars(raw.fingerprint))
    IN  IF fp # <<>> THEN fp
        ELSE sha1(json_dumps(raw.labels))

alert_key(raw) ==
    LET fp == Strip(Chars(raw.fingerprint))
    IN  IF fp # <<>> THEN fp
        ELSE sha1(json_dumps(SortedItems(raw.labels)))

\* ------------------------------------------------------------ Merge rank

_state_weight(raw) ==
    LET s == _lower(Chars(Or(raw.status.state, raw.status.status)))
    IN  CASE s = Chars("firing") -> 3
          [] s = Chars("active") -> 2
          [] s = Chars("suppressed") -> 1
          [] OTHER -> 0

\* -------------------------------------------------------- Site Classifier

Join(parts) ==
    LET F[i \in 0..Len(parts)] ==
            IF i = 0 THEN <<>>
            ELSE F[i - 1] \o (IF i > 1 THEN <<" ">> ELSE <<>>) \o parts[i]
    IN  F[Len(parts)]

detect_dc(alert) ==
    LET labels == alert.labels
        ann == alert.annotations
        text == Join(<<_lower(Chars(Get(labels, "DC"))), _lower(Chars(Get(labels, "dc"))),
                       _lower(Chars(Get(ann, "summary"))), _lower(Chars(Get(ann, "message"))),
                       _lower(Chars(Get(ann, "description"))), _lower(Chars(Get(ann, "body")))>>)
        dc_label == _lower(Chars(Or(Get(labels, "DC"), Get(labels, "dc"))))
        exact == {canon \in Canon : dc_label # <<>> /\ dc_label = _lower(Chars(canon))}
        bySyn == {canon \in Canon :
                    \E i \in DOMAIN DC_SYNONYMS(canon) : Contains(text, DC_SYNONYMS(canon)[i])}
    IN  exact \cup bySyn


\* ----------------------------------------------------------- Merge Engine

\* dict.get(k) on a map of alerts: None when the key is missing.
MapGet(d, k) == IF Has(d, k) THEN d[CHOOSE i \in DOMAIN d : d[i][1] = k][2] ELSE None

\* choose with the winner given the later of the two start times.
choose_blend(old, new) ==
    IF old = None THEN new
    ELSE LET ow == _state_weight(old)
             nw == _state_weight(new)
             win == IF nw # ow THEN (IF nw > ow THEN new ELSE old)
                    ELSE IF _parse_ts(new.startsAt) >= _parse_ts(old.startsAt) THEN new ELSE old
         IN  [win EXCEPT !.startsAt = IF _parse_ts(new.startsAt) >= _parse_ts(old.startsAt)
                                      THEN new.startsAt ELSE old.startsAt]

\* choose with the start time compared before the status rank.
choose_by_start(old, new) ==
    IF old = None THEN new
    ELSE IF _parse_ts(new.startsAt) # _parse_ts(old.startsAt)
         THEN (IF _parse_ts(new.startsAt) > _parse_ts(old.startsAt) THEN new ELSE old)
         ELSE IF _state_weight(new) >= _state_weight(old) THEN new ELSE old

choose(old, new) ==
    IF old = None THEN new
    ELSE LET ow == _state_weight(old)
             nw == _state_weight(new)
         IN  IF nw # ow THEN (IF nw > ow THEN new ELSE old)
             ELSE IF _parse_ts(new.startsAt) >= _parse_ts(old.startsAt) THEN new ELSE old

\* grouped_maps and unassigned_map before the loop: one empty dict per bucket.
EmptyMaps == [b \in Buckets |-> <<>>]

\* Targets with only one of the matched sites kept (a `break` after the first).
Targets_first_only(raw) ==
    IF detect_dc(raw) # {}
    THEN {CHOOSE dc \in detect_dc(raw) : TRUE}
    ELSE {"Unassigned"}

\* The buckets one raw alert is folded into.
Targets(raw) ==
    LET dcs == detect_dc(raw)
    IN  IF dcs # {} THEN dcs ELSE {"Unassigned"}

\* One iteration of `for raw in all_alerts`.
FoldAlert(maps, raw) ==
    LET k == alert_key(raw)
        targets == Targets(raw)
    IN  [b \in Buckets |->
            IF b \in targets
            THEN Put(maps[b], k, choose(MapGet(maps[b], k), raw))
            ELSE maps[b]]

\* The whole loop over all_alerts.
RECURSIVE FoldAll(_, _)
FoldAll(maps, alerts) ==
    IF alerts = <<>> THEN maps
    ELSE FoldAll(FoldAlert(maps, Head(alerts)), Tail(alerts))

\* silence_map_by_id of _refresh_now: the silences with an id, a later one
\* replacing an earlier one of the same id.
RECURSIVE SilenceMap(_)
SilenceMap(sils) ==
    IF sils = <<>> THEN <<>>
    ELSE LET s == sils[Len(sils)]
             rest == SilenceMap(SubSeq(sils, 1, Len(sils) - 1))
         IN  IF s.id # ""
             THEN Put(rest, s.id, [id |-> s.id, comment |-> s.comment,
                                   status |-> s.status.state, sourceGrafana |-> s._source])
             ELSE rest

\* [silence_map_by_id.get(sid) for sid in sil_ids if sid in silence_map_by_id]
SilenceDetails(sil_ids, silence_map_by_id) ==
    LET known == SelectSeq(sil_ids, LAMBDA sid : Has(silence_map_by_id, sid))
    IN  [i \in DOMAIN known |-> Get(silence_map_by_id, known[i])]

normalize(raw, silence_map_by_id) ==
    [alertname     |-> Or(Or(Get(raw.labels, "alertname"), Get(raw.labels, "alert_name")), "unknown"),
     status        |-> Or(raw.status.state, "active"),
     labels        |-> raw.labels,
     annotations   |-> raw.annotations,
     startsAt      |-> raw.startsAt,
     endsAt        |-> raw.endsAt,
     fingerprint   |-> raw.fingerprint,
     sourceGrafana |-> raw._source,
     silencedBy    |-> raw.status.silencedBy,
     silences      |-> SilenceDetails(raw.status.silencedBy, silence_map_by_id)]

\* list.sort(key=_parse_ts(startsAt), reverse=True): stable, latest start first.
RECURSIVE SortByStartDesc(_)
SortByStartDesc(xs) ==
    IF xs = <<>> THEN <<>>
    ELSE LET x == xs[Len(xs)]
             done == SortByStartDesc(SubSeq(xs, 1, Len(xs) - 1))
             ahead == SelectSeq(done, LAMBDA y : _parse_ts(y.startsAt) >= _parse_ts(x.startsAt))
             behind == SelectSeq(done, LAMBDA y : _parse_ts(y.startsAt) < _parse_ts(x.startsAt))
         IN  ahead \o <<x>> \o behind

\* The normalize-and-sort tail of aggregate_by_dc.
Finalize(maps, silence_map_by_id) ==
    [b \in Buckets |->
        SortByStartDesc([i \in DOMAIN maps[b] |-> normalize(maps[b][i][2], silence_map_by_id)])]

aggregate_by_dc(all_alerts, silence_map_by_id) ==
    Finalize(FoldAll(EmptyMaps, all_alerts), silence_map_by_id)


\* ------------------------------------------------------------------ state

VARIABLES
    raw,            \* Identity Resolver: the RawAlert under study
    key,            \* Identity Resolver: alert_key(raw)
    op,             \* Identity Resolver: the last edit made to raw
    all_alerts,     \* Merge Engine: the RawAlerts folded so far, in processing order
    grouped_maps,   \* Merge Engine: grouped_maps and unassigned_map, one dict per bucket
    by_dc,          \* Merge Engine: aggregate_by_dc's result
    merge_pc,       \* Merge Engine: "loop" while folding, "done" after normalize and sort
    dc_counts,      \* storage: the rows of table dc_counts, in insertion order
    alert_snapshots,\* storage: the rows of table alert_snapshots, in insertion order
    window,         \* Window Report Builder: <<start_utc, end_utc>> of the last report
    summary,        \* Window Report Builder: _summary_totals' result
    details,        \* Window Report Builder: _detail_alerts' result
    CACHE,          \* the cached view: generated_at, by_dc, sources, last_error
    CACHE_LOCK,     \* the thread that holds CACHE_LOCK, "" when free
    cache_writer,   \* per CACHE field, the cycle that wrote it last (0: construction),
                    \* and the cycles that had fetched before that cycle began
    swapped,        \* the cycles whose swap of the cached view is complete
    clock,          \* the wall clock, in ticks
    ncycles,        \* the number of refresh cycles started so far
    nrequests,      \* the number of HTTP requests received so far
    pc,             \* per thread, the statement it is at
    local,          \* per thread, the locals of its _refresh_now call
    view,           \* per thread, the locals of its api_alerts / healthz call
    view_writer,    \* per thread and field read, the cycle that had written it
    upstream,       \* per source, what an attempt to fetch from it can meet
    fetch_g,        \* fetch_from_grafana: the source it was called with (0: not called)
    fetch_pc,       \* fetch_from_grafana: the statement it is at
    fetch_i,        \* fetch_from_grafana: the loop variable i
    fetch_met,      \* fetch_from_grafana: what each attempt so far has met
    fetch_sleeps,   \* fetch_from_grafana: the attempts after which it has slept
    fetch_last_err, \* fetch_from_grafana: the local last_err
    fetch_result    \* fetch_from_grafana: what it returned

keyVars == <<raw, key, op>>

mergeVars == <<all_alerts, grouped_maps, by_dc, merge_pc>>

storeVars == <<dc_counts, alert_snapshots>>

reportVars == <<window, summary, details>>

cacheVars == <<CACHE, CACHE_LOCK, cache_writer, swapped>>

threadVars == <<clock, ncycles, nrequests, pc, local, view, view_writer>>

fetchVars == <<fetch_g, fetch_pc, fetch_i, fetch_met, fetch_sleeps, fetch_last_err, fetch_result>>

vars == <<keyVars, mergeVars, storeVars, reportVars, cacheVars, threadVars, upstream, fetchVars>>

\* What each component's steps leave alone: the other components' state.
outsideKey == <<mergeVars, storeVars, reportVars, cacheVars, threadVars, upstream, fetchVars>>

outsideMerge == <<keyVars, storeVars, reportVars, cacheVars, threadVars, upstream, fetchVars>>

outsideReport == <<keyVars, mergeVars, dc_counts, cacheVars, threadVars, upstream, fetchVars>>

outsideRefresh == <<keyVars, mergeVars, reportVars, upstream, fetchVars>>

outsideFetch == <<keyVars, mergeVars, storeVars, reportVars, cacheVars, threadVars, upstream>>

\* A RawAlert as fetched: absent fields are "" (strings), <<>> (mappings, lists, times).
Raw(fp, labels, ann, state, status, silencedBy, startsAt, src) ==
    [fingerprint |-> fp, labels |-> labels, annotations |-> ann,
     status |-> [state |-> state, status |-> status, silencedBy |-> silencedBy],
     startsAt |-> startsAt, endsAt |-> <<>>, _source |-> src]

EmptyByDc == [b \in Buckets |-> <<>>]

KeyIdle == /\ raw = Raw("", <<>>, <<>>, "", "", <<>>, <<>>, "")
           /\ key = <<>>
           /\ op = "idle"

MergeIdle == /\ all_alerts = <<>>
             /\ grouped_maps = EmptyMaps
             /\ by_dc = EmptyByDc
             /\ merge_pc = "idle"

\* db.py init_db: both tables empty.
StoreInit == /\ dc_counts = <<>>
             /\ alert_snapshots = <<>>

ReportIdle == /\ window = <<>>
              /\ summary = <<>>
              /\ details = <<>>

\* The threads: refresh_loop's and the web server's request handlers.
Threads == {"bg", "h1", "h2"}

\* The locals of a thread that is not inside _refresh_now.
NoLocal == [cycle |-> 0, earlier |-> {}, g |-> 1, combined_alerts |-> <<>>,
            combined_silences |-> <<>>, sources |-> <<>>, net |-> <<>>, by_dc |-> <<>>]

\* The locals of a thread that is not inside a reading handler.
NoView == [generated_at |-> None, by_dc |-> <<>>, sources |-> <<>>, last_error |-> None]

NoViewWriter == [generated_at |-> 0, by_dc |-> 0, sources |-> 0]

\* app.py:93-94: the module-level CACHE and CACHE_LOCK.
CacheInit == /\ CACHE = [generated_at |-> None, by_dc |-> <<>>, sources |-> <<>>,
                         last_error |-> None]
             /\ CACHE_LOCK = ""
             /\ cache_writer = [generated_at |-> 0, by_dc |-> 0, sources |-> 0, earlier |-> {}]
             /\ swapped = {0}

\* No thread has started.
ThreadsIdle == /\ clock = 1
               /\ ncycles = 0
               /\ nrequests = 0
               /\ pc = [t \in Threads |-> "off"]
               /\ local = [t \in Threads |-> NoLocal]
               /\ view = [t \in Threads |-> NoView]
               /\ view_writer = [t \in Threads |-> NoViewWriter]
               /\ upstream = <<>>

\* fetch_from_grafana has not been called on its own.
FetchIdle == /\ fetch_g = 0
             /\ fetch_pc = "idle"
             /\ fetch_i = 0
             /\ fetch_met = <<>>
             /\ fetch_sleeps = <<>>
             /\ fetch_last_err = None
             /\ fetch_result = None

\* ---------------------------------------- Identity Resolver under edits

KeyFingerprints == {"", "  ", "f1", " f1 "}

EditKeys == {"alertname", "job", "DC"}

EditValues == {"cpu", "disk"}

KeyInit ==
    /\ \E fp \in KeyFingerprints :
          raw = Raw(fp, <<>>, <<>>, "firing", "", <<>>, <<>>, "Grafana1")
    /\ key = alert_key(raw)
    /\ op = "init"
    /\ MergeIdle
    /\ StoreInit
    /\ ReportIdle
    /\ CacheInit
    /\ ThreadsIdle
    /\ FetchIdle

\* labels[k] = v: changes the value of a label or adds one.
SetLabel(k, v) ==
    /\ Get(raw.labels, k) # v
    /\ raw' = [raw EXCEPT !.labels = Put(raw.labels, k, v)]
    /\ key' = alert_key(raw')
    /\ op' = IF Has(raw.labels, k) THEN "change" ELSE "add"
    /\ UNCHANGED outsideKey

\* del labels[k]
RemoveLabel(k) ==
    /\ Has(raw.labels, k)
    /\ raw' = [raw EXCEPT !.labels = SelectSeq(raw.labels, LAMBDA it : it[1] # k)]
    /\ key' = alert_key(raw')
    /\ op' = "remove"
    /\ UNCHANGED outsideKey

\* The same labels inserted in another order: two neighbours swapped.
ReorderLabels(i) ==
    /\ i \in 1..(Len(raw.labels) - 1)
    /\ raw' = [raw EXCEPT !.labels =
                  [j \in DOMAIN raw.labels |->
                      IF j = i THEN raw.labels[i + 1]
                      ELSE IF j = i + 1 THEN raw.labels[i]
                      ELSE raw.labels[j]]]
    /\ key' = alert_key(raw')
    /\ op' = "reorder"
    /\ UNCHANGED outsideKey

KeyNext ==
    \/ \E k \in EditKeys, v \in EditValues : SetLabel(k, v)
    \/ \E k \in EditKeys : RemoveLabel(k)
    \/ \E i \in 1..2 : ReorderLabels(i)

SpecKey == KeyInit /\ [][KeyNext]_vars

\* ------------------------------------------------- Merge Engine, stepwise

MaxAlerts == 3

LabCpuTeh == <<<<"alertname", "cpu">>, <<"DC", "TEHRAN">>>>

LabCpu == <<<<"alertname", "cpu">>>>

LabDisk == <<<<"alertname", "disk">>>>

MergeAlerts ==
    { Raw("f1", LabCpuTeh, <<>>, "firing", "", <<>>, <<4, 0>>, "Grafana1"),
      Raw("f1", LabCpuTeh, <<>>, "firing", "", <<>>, <<4, 0>>, "Grafana2"),
      Raw("f1", LabCpuTeh, <<>>, "suppressed", "", <<"s1">>, <<6, 0>>, "Grafana2"),
      Raw(" f1 ", LabCpu, <<<<"description", "shz tbz">>>>, "active", "", <<>>, <<9, 5>>, "Grafana1"),
      Raw("", LabDisk, <<<<"summary", "x">>>>, "", "", <<>>, <<>>, "Grafana1"),
      Raw("", LabDisk, <<<<"summary", "x">>>>, "", "Firing", <<>>, <<2, 0>>, "Grafana2"),
      Raw("f1", LabCpu, <<>>, "active", "", <<"s1", "s9">>, <<8, 0>>, "Grafana2"),
      Raw("f2", <<<<"dc", "teh">>>>, <<>>, "unprocessed", "", <<>>, <<1, 0>>, "Grafana1") }

\* The silence lookup the merge normalizes against.
MergeSilences ==
    SilenceMap(<<[id |-> "s1", comment |-> "maintenance", status |-> [state |-> "active"],
                  _source |-> "Grafana2"]>>)

MergeInit ==
    /\ all_alerts = <<>>
    /\ grouped_maps = EmptyMaps
    /\ by_dc = EmptyByDc
    /\ merge_pc = "loop"
    /\ KeyIdle
    /\ StoreInit
    /\ ReportIdle
    /\ CacheInit
    /\ ThreadsIdle
    /\ FetchIdle

\* The next RawAlert of all_alerts goes through the loop body.
FoldNext(r) ==
    /\ merge_pc = "loop"
    /\ Len(all_alerts) < MaxAlerts
    /\ all_alerts' = Append(all_alerts, r)
    /\ grouped_maps' = FoldAlert(grouped_maps, r)
    /\ UNCHANGED <<by_dc, merge_pc, outsideMerge>>

\* The loop is over: normalize every winner, sort every bucket, return.
FinishMerge ==
    /\ merge_pc = "loop"
    /\ by_dc' = Finalize(grouped_maps, MergeSilences)
    /\ merge_pc' = "done"
    /\ UNCHANGED <<all_alerts, grouped_maps, outsideMerge>>

MergeNext ==
    \/ \E r \in MergeAlerts : FoldNext(r)
    \/ FinishMerge

SpecMerge == MergeInit /\ [][MergeNext]_vars


\* ------------------------------------------------------- claims: identity

HasFingerprint(r) == Strip(Chars(r.fingerprint)) # <<>>

\* The two mappings hold the same items, in any order.
SameItems(d, e) ==
    /\ Len(d) = Len(e)
    /\ {d[i] : i \in DOMAIN d} = {e[i] : i \in DOMAIN e}

\* e is d with the value of exactly one label changed.
OneValueChanged(d, e) ==
    /\ {d[i][1] : i \in DOMAIN d} = {e[i][1] : i \in DOMAIN e}
    /\ Cardinality({k \in {d[i][1] : i \in DOMAIN d} : Get(d, k) # Get(e, k)}) = 1

\* C8: with a fingerprint that is non-empty after trimming, no change, addition
\* or removal of a label changes the identity; without one, reordering the
\* labels keeps the identity and changing one label value changes it.
IdentityStability ==
    [][/\ (HasFingerprint(raw) /\ raw'.fingerprint = raw.fingerprint) => key' = key
       /\ (~HasFingerprint(raw) /\ ~HasFingerprint(raw') /\ SameItems(raw.labels, raw'.labels))
             => key' = key
       /\ (~HasFingerprint(raw) /\ ~HasFingerprint(raw') /\ OneValueChanged(raw.labels, raw'.labels))
             => key' # key]_vars

\* C8 witness: a blank-only fingerprint, three labels just reordered into
\* an order that is not the sorted one, the identity being the digest.
IdentityStabilityWitness ==
    /\ op = "reorder"
    /\ raw.fingerprint = "  "
    /\ Len(raw.labels) = 3
    /\ raw.labels # SortedItems(raw.labels)
    /\ key = sha1(json_dumps(SortedItems(raw.labels)))

\* --------------------------------------------------------- claims: merge

\* Every order the RawAlerts folded so far could have been processed in.
Orders(s) == {[i \in DOMAIN s |-> s[p[i]]] : p \in Permutations(DOMAIN s)}

\* The winner of every (bucket, identity) pair, whatever the dicts' order.
Winners(maps) == [b \in Buckets |-> {maps[b][i] : i \in DOMAIN maps[b]}]

\* C1: every processing order of the same RawAlerts yields the same winning
\* RawAlert for every (bucket, identity) pair.
MergeOrderIndependent ==
    \A s \in Orders(all_alerts) : Winners(FoldAll(EmptyMaps, s)) = Winners(grouped_maps)

\* The claims' routing of an observation, from the classifier alone.
InBucket(r, b) ==
    \/ b \in Canon /\ b \in detect_dc(r)
    \/ b = "Unassigned" /\ detect_dc(r) = {}

\* C2: the winner of a bucket and identity has the highest status rank of
\* all observations of that identity in that bucket, whatever their start
\* times and arrival order; a firing observation makes the winner firing.
StatusPrecedence ==
    \A b \in Buckets : \A i \in DOMAIN grouped_maps[b] : \A j \in DOMAIN all_alerts :
        (alert_key(all_alerts[j]) = grouped_maps[b][i][1] /\ InBucket(all_alerts[j], b))
            => /\ _state_weight(grouped_maps[b][i][2]) >= _state_weight(all_alerts[j])
               /\ all_alerts[j].status.state = "firing"
                     => grouped_maps[b][i][2].status.state = "firing"

\* C2 witness: a firing observation arrived first with the earlier start, a
\* suppressed one of the same identity and bucket arrived later with the
\* later start, and the firing one is the winner.
StatusPrecedenceWitness ==
    \E b \in Buckets : \E i, j \in DOMAIN all_alerts :
        /\ i < j
        /\ InBucket(all_alerts[i], b) /\ InBucket(all_alerts[j], b)
        /\ alert_key(all_alerts[i]) = alert_key(all_alerts[j])
        /\ all_alerts[i].status.state = "firing"
        /\ all_alerts[j].status.state = "suppressed"
        /\ _parse_ts(all_alerts[j].startsAt) > _parse_ts(all_alerts[i].startsAt)
        /\ MapGet(grouped_maps[b], alert_key(all_alerts[i])) = all_alerts[i]

\* The identities of a list of alerts.
KeysOf(xs) == {alert_key(xs[i]) : i \in DOMAIN xs}

\* C7: an identity is in a bucket's map, and after the merge in its output
\* list, exactly when some input of that identity was classified to that
\* site, or, for Unassigned, was classified to no site at all.
BucketRouting ==
    \A b \in Buckets :
        LET routed == {alert_key(all_alerts[j]) :
                          j \in {n \in DOMAIN all_alerts : InBucket(all_alerts[n], b)}}
        IN  /\ {grouped_maps[b][i][1] : i \in DOMAIN grouped_maps[b]} = routed
            /\ merge_pc = "done" => KeysOf(by_dc[b]) = routed

\* C7 witness: after the merge one identity sits in two sites' lists and in
\* no other, and another identity sits in Unassigned only.
BucketRoutingWitness ==
    /\ merge_pc = "done"
    /\ \E k \in KeysOf(by_dc["Shiraz"]) :
          /\ k \in KeysOf(by_dc["Tabriz"])
          /\ k \notin KeysOf(by_dc["Unassigned"]) \cup KeysOf(by_dc["Tehran"])
    /\ \E k \in KeysOf(by_dc["Unassigned"]) :
          \A b \in Canon : k \notin KeysOf(by_dc[b])


\* --------------------------------------------------- Window Report Builder

\* reports.py _to_utc_aware: the same instant with offset 0 (a naive value is
\* taken as UTC already).
_to_utc_aware(dt) == IF dt = NoDt THEN NoDt ELSE <<Instant(dt), 0>>

\* reports.py _alert_key: row.fingerprint or f"{row.alertname}|{row.source}",
\* as the pieces of the string (names hold no "|").
_alert_key(row) ==
    IF row.fingerprint # "" THEN <<row.fingerprint>>
    ELSE <<row.alertname, "|", row.source>>

\* Query with the window closed at its end (ts <= end_utc).
Query_closed(table, start_utc, end_utc) ==
    SelectSeq(table, LAMBDA r : /\ Instant(r.ts) >= Instant(start_utc)
                                /\ Instant(r.ts) <= Instant(end_utc))

\* select(AlertSnapshot).where(ts >= start_utc, ts < end_utc)
Query(table, start_utc, end_utc) ==
    SelectSeq(table, LAMBDA r : /\ Instant(r.ts) >= Instant(start_utc)
                                /\ Instant(r.ts) < Instant(end_utc))

\* The loop of _summary_totals over the rows: per_dc.
RECURSIVE SummaryFold(_, _)
SummaryFold(per_dc, rows) ==
    IF rows = <<>> THEN per_dc
    ELSE LET r == Head(rows)
             dc == Or(r.dc, "Unassigned")
             entry == IF Has(per_dc, dc) THEN Get(per_dc, dc)
                      ELSE [fired |-> {}, supp |-> {}, samples |-> 0]
             status == _lower(Chars(r.status))
             k == _alert_key(r)
             next == [fired   |-> IF status \in {Chars("active"), Chars("firing")}
                                  THEN entry.fired \cup {k} ELSE entry.fired,
                      supp    |-> IF status = Chars("suppressed")
                                  THEN entry.supp \cup {k} ELSE entry.supp,
                      samples |-> entry.samples + 1]
         IN  SummaryFold(Put(per_dc, dc, next), Tail(rows))

\* The bucket names in code-point order, the order sorted(per_dc.items()) gives.
SortedBuckets == <<"Esfahan", "Mashhad", "Shiraz", "Tabriz", "Tehran", "Unassigned">>

_summary_totals(table, start_utc, end_utc) ==
    LET per_dc == SummaryFold(<<>>, Query(table, start_utc, end_utc))
        present == SelectSeq(SortedBuckets, LAMBDA dc : Has(per_dc, dc))
    IN  [i \in DOMAIN present |->
            [dc         |-> present[i],
             fired      |-> Cardinality(Get(per_dc, present[i]).fired),
             suppressed |-> Cardinality(Get(per_dc, present[i]).supp),
             samples    |-> Get(per_dc, present[i]).samples]]

\* The loop of _detail_alerts over the rows: agg.
RECURSIVE DetailFold(_, _)
DetailFold(agg, rows) ==
    IF rows = <<>> THEN agg
    ELSE LET r == Head(rows)
             k == <<r.dc, _alert_key(r)>>
             ts == _to_utc_aware(r.ts)
             starts_at == _to_utc_aware(r.starts_at)
             ends_at == _to_utc_aware(r.ends_at)
             it == IF Has(agg, k) THEN Get(agg, k)
                   ELSE [dc |-> r.dc, alertname |-> r.alertname, source |-> r.source,
                         fingerprint |-> r.fingerprint, statuses |-> {},
                         min_seen_ts |-> ts, max_seen_ts |-> ts,
                         min_starts_at |-> starts_at, max_ends_at |-> ends_at,
                         labels |-> r.labels, annotations |-> r.annotations]
             next == [it EXCEPT
                        !.statuses = @ \cup {_lower(Chars(r.status))},
                        !.min_seen_ts = DtMin(@, ts),
                        !.max_seen_ts = DtMax(@, ts),
                        !.min_starts_at = IF starts_at # NoDt
                                          THEN (IF @ = NoDt THEN starts_at ELSE DtMin(@, starts_at))
                                          ELSE @,
                        !.max_ends_at = IF ends_at # NoDt
                                        THEN (IF @ = NoDt THEN ends_at ELSE DtMax(@, ends_at))
                                        ELSE @]
         IN  DetailFold(Put(agg, k, next), Tail(rows))

\* int(x.total_seconds()): whole seconds of a difference in ticks, towards zero.
WholeSeconds(ticks) ==
    IF ticks >= 0 THEN ticks \div TicksPerSecond ELSE -((-ticks) \div TicksPerSecond)

\* The difference taken as it is (the max(0, ...) dropped).
Max0_unclamped(n) == n

\* Python max(0, n)
Max0(n) == IF n > 0 THEN n ELSE 0

\* ObservedEnd without the last-seen fallback: an alert with no explicit end
\* is taken as still running (the far future, cut to the window's end later).
ObservedEnd_open(it) == IF it.max_ends_at # NoDt THEN it.max_ends_at ELSE <<1000, 0>>

\* The end an aggregated alert is measured to: its latest explicit end, else
\* the last snapshot that saw it.
ObservedEnd(it) == IF it.max_ends_at # NoDt THEN it.max_ends_at ELSE it.max_seen_ts

\* The record _detail_alerts builds from one aggregated alert.
DetailRecord(it, start_utc, end_utc) ==
    LET start == IF it.min_starts_at # NoDt THEN it.min_starts_at ELSE it.min_seen_ts
        end == ObservedEnd(it)
        eff_start == DtMax(start, start_utc)
        eff_end == DtMin(end, end_utc)
    IN  [alertname |-> it.alertname, source |-> it.source, fingerprint |-> it.fingerprint,
         statuses |-> it.statuses, start_utc |-> eff_start, end_utc |-> eff_end,
         duration_seconds |-> Max0(WholeSeconds(Instant(eff_end) - Instant(eff_start))),
         labels |-> it.labels, annotations |-> it.annotations]

\* The alert names in code-point order.
NameOrder == <<"cpu", "disk", "unknown">>

NameRank(n) == CHOOSE i \in DOMAIN NameOrder : NameOrder[i] = n

\* list.sort(key=(-duration_seconds, alertname)): stable.
RECURSIVE SortDetails(_)
SortDetails(xs) ==
    IF xs = <<>> THEN <<>>
    ELSE LET x == xs[Len(xs)]
             done == SortDetails(SubSeq(xs, 1, Len(xs) - 1))
             After(y) == \/ y.duration_seconds < x.duration_seconds
                         \/ /\ y.duration_seconds = x.duration_seconds
                            /\ NameRank(y.alertname) > NameRank(x.alertname)
         IN  SelectSeq(done, LAMBDA y : ~After(y)) \o <<x>> \o SelectSeq(done, After)

\* by_dc.setdefault(it["dc"], []).append(rec) over agg.values()
RECURSIVE SplitByDc(_, _, _)
SplitByDc(agg, start_utc, end_utc) ==
    IF agg = <<>> THEN <<>>
    ELSE LET it == agg[Len(agg)][2]
             rest == SplitByDc(SubSeq(agg, 1, Len(agg) - 1), start_utc, end_utc)
             sofar == IF Has(rest, it.dc) THEN Get(rest, it.dc) ELSE <<>>
         IN  Put(rest, it.dc, Append(sofar, DetailRecord(it, start_utc, end_utc)))

_detail_alerts(table, start_utc, end_utc) ==
    LET agg == DetailFold(<<>>, Query(table, start_utc, end_utc))
        split == SplitByDc(agg, start_utc, end_utc)
    IN  [i \in DOMAIN split |-> <<split[i][1], SortDetails(split[i][2])>>]


\* ------------------------------------- Window Report Builder over a history

MaxRows == 3

\* One row of alert_snapshots as a refresh cycle writes it.
Snapshot(ts, dc, alertname, status, fp, source, starts_at, ends_at) ==
    [ts |-> <<ts, 0>>, dc |-> dc, alertname |-> alertname, status |-> status,
     fingerprint |-> fp, source |-> source, starts_at |-> starts_at, ends_at |-> ends_at,
     labels |-> <<<<"alertname", alertname>>>>, annotations |-> <<>>]

\* The cycle timestamps of the history, in ticks.
RowTimes == {3, 4, 7, 8}

SnapshotRows ==
    UNION {{ Snapshot(ts, "Tehran", "cpu", "firing", "f1", "Grafana1", <<1, 0>>, NoDt),
             Snapshot(ts, "Tehran", "cpu", "suppressed", "f1", "Grafana2", <<1, 0>>, NoDt),
             Snapshot(ts, "Tehran", "disk", "active", "", "Grafana1", NoDt, <<12, 0>>),
             Snapshot(ts, "Tehran", "disk", "firing", "", "Grafana2", <<10, 5>>, NoDt),
             Snapshot(ts, "Unassigned", "cpu", "unprocessed", "f1", "Grafana1", <<6, 0>>, <<2, 0>>) }
           : ts \in RowTimes}

\* The report windows asked for: <<start_utc, end_utc>>, two and two and a half seconds long.
ReportWindows == {<<<<4, 0>>, <<8, 0>>>>, <<<<3, 0>>, <<8, 0>>>>}

ReportInit ==
    /\ StoreInit
    /\ ReportIdle
    /\ KeyIdle
    /\ MergeIdle
    /\ CacheInit
    /\ ThreadsIdle
    /\ FetchIdle

\* A refresh cycle appends a row; cycle timestamps never go back.  The
\* report of an earlier request is gone by then.
InsertRow(r) ==
    /\ Len(alert_snapshots) < MaxRows
    /\ alert_snapshots # <<>> => Instant(r.ts) >= Instant(alert_snapshots[Len(alert_snapshots)].ts)
    /\ alert_snapshots' = Append(alert_snapshots, r)
    /\ window' = <<>>
    /\ summary' = <<>>
    /\ details' = <<>>
    /\ UNCHANGED outsideReport

\* build_report_daily / weekly / monthly, past the bounds computation.
BuildReport(w) ==
    /\ window' = w
    /\ summary' = _summary_totals(alert_snapshots, w[1], w[2])
    /\ details' = _detail_alerts(alert_snapshots, w[1], w[2])
    /\ UNCHANGED <<alert_snapshots, outsideReport>>

ReportNext ==
    \/ \E r \in SnapshotRows : InsertRow(r)
    \/ \E w \in ReportWindows : BuildReport(w)

SpecReport == ReportInit /\ [][ReportNext]_vars

\* -------------------------------------------------------- claims: reports

\* The report identity as the claims word it: the fingerprint if non-empty,
\* otherwise the alert name and origin pair.
ReportIdentity(r) ==
    IF r.fingerprint # "" THEN <<"fingerprint", r.fingerprint>>
    ELSE <<"pair", r.alertname, r.source>>

\* The rows of the history stamped inside [start, end), by index.
RowsIn(w) ==
    {i \in DOMAIN alert_snapshots :
        /\ w[1][1] <= alert_snapshots[i].ts[1]
        /\ alert_snapshots[i].ts[1] < w[2][1]}

\* The distinct identities of the rows S whose status is one of st.
IdentitiesWith(S, st) ==
    {ReportIdentity(alert_snapshots[i]) : i \in {n \in S : alert_snapshots[n].status \in st}}

\* C10: the summary counts, per site, exactly the rows with start <= ts < end:
\* samples is their number, fired the number of distinct identities with an
\* active or firing row, suppressed the number with a suppressed row.
SummaryCounts ==
    window # <<>> =>
        \A b \in Buckets :
            LET S == {i \in RowsIn(window) : alert_snapshots[i].dc = b}
                entries == {i \in DOMAIN summary : summary[i].dc = b}
            IN  IF S = {} THEN entries = {}
                ELSE /\ Cardinality(entries) = 1
                     /\ \A i \in entries :
                           /\ summary[i].samples = Cardinality(S)
                           /\ summary[i].fired = Cardinality(IdentitiesWith(S, {"active", "firing"}))
                           /\ summary[i].suppressed = Cardinality(IdentitiesWith(S, {"suppressed"}))

\* C10 witness: a report over a history with a row stamped exactly at the
\* window's start, one exactly at its end and one before it, where two rows
\* of one identity count once as fired.
SummaryCountsWitness ==
    /\ window # <<>>
    /\ \E i, j, k \in DOMAIN alert_snapshots :
          /\ alert_snapshots[i].ts = window[1]
          /\ alert_snapshots[j].ts = window[2]
          /\ alert_snapshots[k].ts[1] > window[1][1] /\ k \in RowsIn(window)
          /\ alert_snapshots[i].dc = "Tehran" /\ alert_snapshots[j].dc = "Tehran"
          /\ alert_snapshots[k].dc = "Tehran"
          /\ ReportIdentity(alert_snapshots[i]) = ReportIdentity(alert_snapshots[k])
          /\ alert_snapshots[i].status = "firing" /\ alert_snapshots[k].status = "firing"
    /\ \E i \in DOMAIN summary :
          summary[i] = [dc |-> "Tehran", fired |-> 1, suppressed |-> 0, samples |-> 2]

\* The detail records of the last report with their site: <<dc, record>>.
DetailRecords ==
    UNION {{<<details[i][1], details[i][2][j]>> : j \in DOMAIN details[i][2]}
           : i \in DOMAIN details}

\* The in-window rows a detail record of site dc was aggregated from.
RowsOf(dc, rec) ==
    {i \in RowsIn(window) :
        /\ alert_snapshots[i].dc = dc
        /\ ReportIdentity(alert_snapshots[i]) = ReportIdentity(rec)}

\* The alert of the record was seen starting before the window and no row
\* of it carries an end time.
StartsBeforeNeverEnds(dc, rec) ==
    /\ \E i \in RowsOf(dc, rec) :
          /\ alert_snapshots[i].starts_at # NoDt
          /\ Instant(alert_snapshots[i].starts_at) < Instant(window[1])
    /\ \A i \in RowsOf(dc, rec) : alert_snapshots[i].ends_at = NoDt

\* The latest cycle timestamp among the rows of a record.
LastSeen(dc, rec) ==
    CHOOSE m \in {Instant(alert_snapshots[i].ts) : i \in RowsOf(dc, rec)} :
        \A i \in RowsOf(dc, rec) : Instant(alert_snapshots[i].ts) <= m

\* C3 as claimed: an alert that starts before the window and never ends has
\* a duration of exactly the window's end minus the window's start.
WindowClippingToWindowEnd ==
    window # <<>> =>
        \A d \in DetailRecords :
            StartsBeforeNeverEnds(d[1], d[2])
                => d[2].duration_seconds = WholeSeconds(Instant(window[2]) - Instant(window[1]))

\* C3 amended: an alert that starts before the window and never ends has a
\* duration of the whole seconds from the window's start to the last
\* snapshot that saw it inside the window.
WindowClippingToLastSeen ==
    window # <<>> =>
        \A d \in DetailRecords :
            StartsBeforeNeverEnds(d[1], d[2])
                => /\ d[2].duration_seconds
                        = WholeSeconds(LastSeen(d[1], d[2]) - Instant(window[1]))
                   /\ d[2].start_utc = window[1]
                   /\ Instant(d[2].end_utc) = LastSeen(d[1], d[2])

\* C3 witness: a report holds such an alert, seen in two snapshots of the
\* window, with a duration shorter than the window.
WindowClippingWitness ==
    /\ window # <<>>
    /\ \E d \in DetailRecords :
          /\ StartsBeforeNeverEnds(d[1], d[2])
          /\ Cardinality(RowsOf(d[1], d[2])) = 2
          /\ d[2].duration_seconds > 0
          /\ d[2].duration_seconds < WholeSeconds(Instant(window[2]) - Instant(window[1]))


\* ------------------------------------------------------ Snapshot Aggregator

\* The configured sources by name (the model runs the first two of GRAFANAS).
GRAFANAS == <<"Grafana1", "Grafana2">>

FETCH_RETRIES == 3

\* attempts = FETCH_RETRIES + 1
Attempts == FETCH_RETRIES + 1

\* An alert as an Alertmanager returns it, not yet tagged with its origin.
NetAlert(fp, labels, ann, state, silencedBy, startsAt) ==
    Raw(fp, labels, ann, state, "", silencedBy, startsAt, "")

NetSilence(id) ==
    [id |-> id, comment |-> "maintenance", status |-> [state |-> "active"], _source |-> ""]

\* What source g may answer to /api/v2/alerts and /api/v2/silences when it
\* answers.  The first source holds one firing and one unclassified alert; the
\* second holds nothing, or a suppressed observation of the first source's
\* firing alert and a silenced unclassified one.
Answers(g) ==
    IF g = 1
    THEN {[alerts |-> <<NetAlert("f1", LabCpuTeh, <<>>, "firing", <<>>, <<4, 0>>),
                        NetAlert("f2", LabCpu, <<>>, "active", <<>>, <<2, 0>>)>>,
           silences |-> <<>>]}
    ELSE {[alerts |-> <<>>, silences |-> <<>>],
          [alerts |-> <<NetAlert("f1", LabCpuTeh, <<>>, "suppressed", <<"s1">>, <<6, 0>>),
                        NetAlert("", LabDisk, <<<<"summary", "x">>>>, "suppressed", <<"s1">>, <<5, 0>>)>>,
           silences |-> <<NetSilence("s1")>>]}

\* What one attempt on source g can meet: _get_alerts raises; _get_alerts
\* returns and _list_silences raises; both return.
AttemptOutcomes(g) ==
    {[alerts_ok |-> FALSE, silences_ok |-> FALSE, alerts |-> <<>>, silences |-> <<>>]}
    \cup {[alerts_ok |-> TRUE, silences_ok |-> FALSE, alerts |-> a.alerts, silences |-> <<>>]
            : a \in Answers(g)}
    \cup {[alerts_ok |-> TRUE, silences_ok |-> TRUE, alerts |-> a.alerts, silences |-> a.silences]
            : a \in Answers(g)}

\* Every source answers, and answers with records.
Steady(g) == {o \in AttemptOutcomes(g) : o.alerts_ok /\ o.silences_ok /\ o.alerts # <<>>}

\* str(e) of the RuntimeError _am_get raises.
ErrText(g, outcome) ==
    <<"GET failed for", GRAFANAS[g],
      IF outcome.alerts_ok THEN "/api/v2/silences" ELSE "/api/v2/alerts">>

\* a["_source"] = g["name"] on every record (_base_url goes with the name).
Tag(xs, g) == [i \in DOMAIN xs |-> [xs[i] EXCEPT !._source = GRAFANAS[g]]]

\* The retry loop with `alerts` kept from an attempt whose silence fetch
\* failed (alerts assigned to the result before _list_silences is called).
RECURSIVE FetchLoop_keeps_alerts(_, _, _, _)
FetchLoop_keeps_alerts(g, net, i, last_err) ==
    IF i > Attempts
    THEN [alerts |-> Tag(net[Attempts].alerts, g), silences |-> <<>>, ok |-> FALSE,
          err |-> last_err, final |-> i - 1]
    ELSE IF net[i].alerts_ok /\ net[i].silences_ok
         THEN [alerts |-> Tag(net[i].alerts, g), silences |-> Tag(net[i].silences, g),
               ok |-> TRUE, err |-> None, final |-> i]
         ELSE FetchLoop_keeps_alerts(g, net, i + 1, ErrText(g, net[i]))

\* The retry loop of fetch_from_grafana from attempt i on, net[i] being what
\* attempt i meets; `final` is the attempt the call returned on.
RECURSIVE FetchLoop(_, _, _, _)
FetchLoop(g, net, i, last_err) ==
    IF i > Attempts
    THEN [alerts |-> <<>>, silences |-> <<>>, ok |-> FALSE, err |-> last_err, final |-> i - 1]
    ELSE IF net[i].alerts_ok /\ net[i].silences_ok
         THEN [alerts |-> Tag(net[i].alerts, g), silences |-> Tag(net[i].silences, g),
               ok |-> TRUE, err |-> None, final |-> i]
         ELSE FetchLoop(g, net, i + 1, ErrText(g, net[i]))

fetch_from_grafana(g, net) == FetchLoop(g, net, 1, None)

\* One pass of `for g in GRAFANAS` in _refresh_now.
AfterFetch(L, res, outcome) ==
    [L EXCEPT !.combined_alerts = @ \o res.alerts,
              !.combined_silences = @ \o res.silences,
              !.sources = Append(@, [name |-> GRAFANAS[L.g], ok |-> res.ok, error |-> res.err]),
              !.net = Append(@, outcome),
              !.g = @ + 1]

\* a.get("silences") is truthy
Silenced(a) == a.silences # <<>>

\* The DcCount row with every alert counted as active, silenced or not.
CountRow_all_active(now, dc, alerts) ==
    LET active == Len(alerts)
        suppressed == Len(SelectSeq(alerts, Silenced))
    IN  [ts |-> now, dc |-> dc, active |-> active, suppressed |-> suppressed,
         total |-> active + suppressed]

\* The DcCount row of one bucket.
CountRow(now, dc, alerts) ==
    LET active == Len(SelectSeq(alerts, LAMBDA a : ~Silenced(a)))
        suppressed == Len(SelectSeq(alerts, Silenced))
    IN  [ts |-> now, dc |-> dc, active |-> active, suppressed |-> suppressed,
         total |-> active + suppressed]

\* The AlertSnapshot row of one NormalizedAlert.
SnapshotRow(now, dc, a) ==
    [ts |-> now, dc |-> dc, alertname |-> a.alertname, status |-> Or(a.status, "active"),
     fingerprint |-> a.fingerprint, source |-> a.sourceGrafana,
     starts_at |-> _parse_dt(a.startsAt), ends_at |-> _parse_dt(a.endsAt),
     labels |-> a.labels, annotations |-> a.annotations]

\* The rows the session holds at commit: for dc in DC_CANONICAL + ["Unassigned"].
RECURSIVE CountRows(_, _, _)
CountRows(now, bdc, n) ==
    IF n = 0 THEN <<>>
    ELSE Append(CountRows(now, bdc, n - 1), CountRow(now, BucketOrder[n], bdc[BucketOrder[n]]))

RECURSIVE AlertRows(_, _, _)
AlertRows(now, bdc, n) ==
    IF n = 0 THEN <<>>
    ELSE AlertRows(now, bdc, n - 1)
            \o [i \in DOMAIN bdc[BucketOrder[n]] |->
                    SnapshotRow(now, BucketOrder[n], bdc[BucketOrder[n]][i])]

\* utcnow() / utc_now_iso(): the clock's reading.  The clock moves on with
\* every committed snapshot, so no two cycles stamp their rows alike.
Now == <<clock, 0>>

\* ------------------------------------------------------------- the threads

MaxCycles == 2

MaxRequests == 2

Handlers == Threads \ {"bg"}

\* The web server hands a request to a worker thread that is free; which of
\* the free workers takes it makes no difference, so the first one does.
Free(t) == /\ pc[t] = "idle"
           /\ t = "h2" => pc["h1"] # "idle"

\* The cached view touched without taking CACHE_LOCK.
CanAcquire_unlocked(t) == TRUE

\* CACHE_LOCK.acquire() returns: the RLock is free or already this thread's.
CanAcquire(t) == CACHE_LOCK \in {"", t}

\* The lock kept on leaving the `with` block (acquire() with no release()).
Released_never(t) == CACHE_LOCK

\* CACHE_LOCK on leaving a `with CACHE_LOCK:` block: the holder releases it.
Released(t) == IF CACHE_LOCK = t THEN "" ELSE CACHE_LOCK

\* The process starts: refresh_loop's thread runs, the web server waits for
\* requests, and the sources are up.
RefreshInit ==
    /\ CacheInit
    /\ StoreInit
    /\ clock = 1
    /\ ncycles = 0
    /\ nrequests = 0
    /\ pc = [t \in Threads |-> IF t = "bg" THEN "loop" ELSE "idle"]
    /\ local = [t \in Threads |-> NoLocal]
    /\ view = [t \in Threads |-> NoView]
    /\ view_writer = [t \in Threads |-> NoViewWriter]
    /\ upstream = [g \in DOMAIN GRAFANAS |-> Steady(g)]
    /\ FetchIdle
    /\ KeyIdle
    /\ MergeIdle
    /\ ReportIdle

\* The cycles whose loop over the sources is over.
FetchedAlready ==
    (1..ncycles) \ {local[u].cycle : u \in {v \in Threads : pc[v] = "fetch"}}

\* _refresh_now is entered: empty accumulators, first source.
Enter(t) ==
    /\ ncycles < MaxCycles
    /\ ncycles' = ncycles + 1
    /\ local' = [local EXCEPT ![t] = [NoLocal EXCEPT !.cycle = ncycles + 1,
                                                     !.earlier = FetchedAlready]]

\* refresh_loop: `while True: try: _refresh_now()`, at the start and
\* whenever time.sleep(POLL_INTERVAL) is over.
BgLoop ==
    /\ pc["bg"] \in {"loop", "sleep"}
    /\ Enter("bg")
    /\ pc' = [pc EXCEPT !["bg"] = "fetch"]
    /\ UNCHANGED <<cacheVars, storeVars, clock, nrequests, view, view_writer, outsideRefresh>>

\* GET /api/alerts?force=1: api_alerts calls _refresh_now first.
ApiAlertsForce(t) ==
    /\ Free(t)
    /\ nrequests < MaxRequests
    /\ nrequests' = nrequests + 1
    /\ Enter(t)
    /\ pc' = [pc EXCEPT ![t] = "fetch"]
    /\ UNCHANGED <<cacheVars, storeVars, clock, view, view_writer, outsideRefresh>>

\* GET /api/alerts: api_alerts goes straight to the cached view.
ApiAlerts(t) ==
    /\ Free(t)
    /\ nrequests < MaxRequests
    /\ nrequests' = nrequests + 1
    /\ pc' = [pc EXCEPT ![t] = "read_lock"]
    /\ UNCHANGED <<cacheVars, storeVars, clock, ncycles, local, view, view_writer, outsideRefresh>>

\* GET /healthz
Healthz(t) ==
    /\ Free(t)
    /\ nrequests < MaxRequests
    /\ nrequests' = nrequests + 1
    /\ pc' = [pc EXCEPT ![t] = "hz_lock"]
    /\ UNCHANGED <<cacheVars, storeVars, clock, ncycles, local, view, view_writer, outsideRefresh>>

\* fetch_from_grafana(g) for the next source, retries included, and the
\* three accumulators extended with what it returned.
FetchSource(t) ==
    /\ pc[t] = "fetch"
    /\ \E net \in [1..Attempts -> upstream[local[t].g]] :
          LET res == fetch_from_grafana(local[t].g, net)
          IN  local' = [local EXCEPT ![t] = AfterFetch(@, res, net[res.final])]
    /\ pc' = [pc EXCEPT ![t] = IF local[t].g = Len(GRAFANAS) THEN "persist" ELSE "fetch"]
    /\ UNCHANGED <<cacheVars, storeVars, clock, ncycles, nrequests, view, view_writer, outsideRefresh>>

\* silence_map_by_id and by_dc = aggregate_by_dc(...), from the accumulators.
Merged(L) == aggregate_by_dc(L.combined_alerts, SilenceMap(L.combined_silences))

\* by_dc is computed; now = utcnow(); the session adds every row; s.commit() succeeds.
PersistCommit(t) ==
    /\ pc[t] = "persist"
    /\ local' = [local EXCEPT ![t].by_dc = Merged(local[t])]
    /\ dc_counts' = dc_counts \o CountRows(Now, local'[t].by_dc, Len(BucketOrder))
    /\ alert_snapshots' = alert_snapshots \o AlertRows(Now, local'[t].by_dc, Len(BucketOrder))
    /\ clock' = clock + 1
    /\ pc' = [pc EXCEPT ![t] = "swap_lock"]
    /\ UNCHANGED <<cacheVars, ncycles, nrequests, view, view_writer, outsideRefresh>>

\* by_dc is computed, but the snapshot write raises: the transaction is
\* rolled back and the exception leaves _refresh_now.  refresh_loop catches
\* it; in api_alerts it ends the request with an error response.
PersistRaise(t) ==
    /\ pc[t] = "persist"
    /\ pc' = [pc EXCEPT ![t] = IF t = "bg" THEN "except_lock" ELSE "idle"]
    /\ local' = [local EXCEPT ![t] = IF t = "bg" THEN local[t] ELSE NoLocal]
    /\ UNCHANGED <<cacheVars, storeVars, clock, ncycles, nrequests, view, view_writer,
                   outsideRefresh>>

\* `with CACHE_LOCK:` at the end of _refresh_now.
SwapLock(t) ==
    /\ pc[t] = "swap_lock"
    /\ CanAcquire(t)
    /\ CACHE_LOCK' = t
    /\ pc' = [pc EXCEPT ![t] = "swap_generated_at"]
    /\ UNCHANGED <<CACHE, cache_writer, swapped, storeVars, clock, ncycles, nrequests, local,
                   view, view_writer, outsideRefresh>>

\* CACHE["generated_at"] = utc_now_iso()
SwapGeneratedAt(t) ==
    /\ pc[t] = "swap_generated_at"
    /\ CACHE' = [CACHE EXCEPT !.generated_at = Now]
    /\ cache_writer' = [cache_writer EXCEPT !.generated_at = local[t].cycle,
                                            !.earlier = local[t].earlier]
    /\ pc' = [pc EXCEPT ![t] = "swap_by_dc"]
    /\ UNCHANGED <<CACHE_LOCK, swapped, storeVars, clock, ncycles, nrequests, local, view,
                   view_writer, outsideRefresh>>

\* CACHE["by_dc"] = by_dc
SwapByDc(t) ==
    /\ pc[t] = "swap_by_dc"
    /\ CACHE' = [CACHE EXCEPT !.by_dc = local[t].by_dc]
    /\ cache_writer' = [cache_writer EXCEPT !.by_dc = local[t].cycle]
    /\ pc' = [pc EXCEPT ![t] = "swap_sources"]
    /\ UNCHANGED <<CACHE_LOCK, swapped, storeVars, clock, ncycles, nrequests, local, view,
                   view_writer, outsideRefresh>>

\* CACHE["sources"] = sources
SwapSources(t) ==
    /\ pc[t] = "swap_sources"
    /\ CACHE' = [CACHE EXCEPT !.sources = local[t].sources]
    /\ cache_writer' = [cache_writer EXCEPT !.sources = local[t].cycle]
    /\ pc' = [pc EXCEPT ![t] = "swap_last_error"]
    /\ UNCHANGED <<CACHE_LOCK, swapped, storeVars, clock, ncycles, nrequests, local, view,
                   view_writer, outsideRefresh>>

\* CACHE["last_error"] = None, the lock is released and _refresh_now
\* returns: to refresh_loop's sleep, or into the rest of api_alerts.
SwapLastError(t) ==
    /\ pc[t] = "swap_last_error"
    /\ CACHE' = [CACHE EXCEPT !.last_error = None]
    /\ swapped' = swapped \cup {local[t].cycle}
    /\ CACHE_LOCK' = Released(t)
    /\ local' = [local EXCEPT ![t] = NoLocal]
    /\ pc' = [pc EXCEPT ![t] = IF t = "bg" THEN "sleep" ELSE "read_lock"]
    /\ UNCHANGED <<cache_writer, storeVars, clock, ncycles, nrequests, view, view_writer,
                   outsideRefresh>>

\* refresh_loop: `except Exception as e: with CACHE_LOCK:`
ExceptLock ==
    /\ pc["bg"] = "except_lock"
    /\ CanAcquire("bg")
    /\ CACHE_LOCK' = "bg"
    /\ pc' = [pc EXCEPT !["bg"] = "except_last_error"]
    /\ UNCHANGED <<CACHE, cache_writer, swapped, storeVars, clock, ncycles, nrequests, local,
                   view, view_writer, outsideRefresh>>

\* CACHE["last_error"] = f"{utc_now_iso()} - {e}" and the lock is released.
ExceptLastError ==
    /\ pc["bg"] = "except_last_error"
    /\ CACHE' = [CACHE EXCEPT !.last_error =
                    [at |-> Now, e |-> "commit failed", cycle |-> local["bg"].cycle]]
    /\ CACHE_LOCK' = Released("bg")
    /\ local' = [local EXCEPT !["bg"] = NoLocal]
    /\ pc' = [pc EXCEPT !["bg"] = "sleep"]
    /\ UNCHANGED <<cache_writer, swapped, storeVars, clock, ncycles, nrequests, view,
                   view_writer, outsideRefresh>>

\* api_alerts and healthz: `with CACHE_LOCK:`
ReadLock(t) ==
    /\ pc[t] \in {"read_lock", "hz_lock"}
    /\ CanAcquire(t)
    /\ CACHE_LOCK' = t
    /\ pc' = [pc EXCEPT ![t] = IF pc[t] = "read_lock" THEN "read_generated_at"
                               ELSE "hz_generated_at"]
    /\ UNCHANGED <<CACHE, cache_writer, swapped, storeVars, clock, ncycles, nrequests, local,
                   view, view_writer, outsideRefresh>>

\* generated_at = CACHE["generated_at"]
ReadGeneratedAt(t) ==
    /\ pc[t] \in {"read_generated_at", "hz_generated_at"}
    /\ view' = [view EXCEPT ![t].generated_at = CACHE.generated_at]
    /\ view_writer' = [view_writer EXCEPT ![t].generated_at = cache_writer.generated_at]
    /\ pc' = [pc EXCEPT ![t] = IF pc[t] = "read_generated_at" THEN "read_by_dc"
                               ELSE "hz_last_error"]
    /\ UNCHANGED <<cacheVars, storeVars, clock, ncycles, nrequests, local, outsideRefresh>>

\* healthz: "last_error": CACHE["last_error"]
HzLastError(t) ==
    /\ pc[t] = "hz_last_error"
    /\ view' = [view EXCEPT ![t].last_error = CACHE.last_error]
    /\ pc' = [pc EXCEPT ![t] = "hz_sources"]
    /\ UNCHANGED <<cacheVars, storeVars, clock, ncycles, nrequests, local, view_writer,
                   outsideRefresh>>

\* by_dc = CACHE["by_dc"]; in healthz the last read, after which the lock is released.
ReadByDc(t) ==
    /\ pc[t] \in {"read_by_dc", "hz_by_dc"}
    /\ view' = [view EXCEPT ![t].by_dc = CACHE.by_dc]
    /\ view_writer' = [view_writer EXCEPT ![t].by_dc = cache_writer.by_dc]
    /\ CACHE_LOCK' = IF pc[t] = "hz_by_dc" THEN Released(t) ELSE CACHE_LOCK
    /\ pc' = [pc EXCEPT ![t] = IF pc[t] = "read_by_dc" THEN "read_sources" ELSE "respond"]
    /\ UNCHANGED <<CACHE, cache_writer, swapped, storeVars, clock, ncycles, nrequests, local,
                   outsideRefresh>>

\* sources = CACHE["sources"]; in api_alerts the last read, after which the lock is released.
ReadSources(t) ==
    /\ pc[t] \in {"read_sources", "hz_sources"}
    /\ view' = [view EXCEPT ![t].sources = CACHE.sources]
    /\ view_writer' = [view_writer EXCEPT ![t].sources = cache_writer.sources]
    /\ CACHE_LOCK' = IF pc[t] = "read_sources" THEN Released(t) ELSE CACHE_LOCK
    /\ pc' = [pc EXCEPT ![t] = IF pc[t] = "read_sources" THEN "respond" ELSE "hz_by_dc"]
    /\ UNCHANGED <<CACHE, cache_writer, swapped, storeVars, clock, ncycles, nrequests, local,
                   outsideRefresh>>

\* return jsonify(...): the response leaves with what was read and the
\* handler's locals are gone.
Respond(t) ==
    /\ pc[t] = "respond"
    /\ view' = [view EXCEPT ![t] = NoView]
    /\ view_writer' = [view_writer EXCEPT ![t] = NoViewWriter]
    /\ pc' = [pc EXCEPT ![t] = "idle"]
    /\ UNCHANGED <<cacheVars, storeVars, clock, ncycles, nrequests, local, outsideRefresh>>

RefreshNext ==
    \/ BgLoop
    \/ ExceptLock
    \/ ExceptLastError
    \/ \E t \in Handlers : ApiAlertsForce(t)
    \/ \E t \in Handlers : ApiAlerts(t)
    \/ \E t \in Handlers : Healthz(t)
    \/ \E t \in Threads : FetchSource(t)
    \/ \E t \in Threads : PersistCommit(t)
    \/ \E t \in Threads : PersistRaise(t)
    \/ \E t \in Threads : SwapLock(t)
    \/ \E t \in Threads : SwapGeneratedAt(t)
    \/ \E t \in Threads : SwapByDc(t)
    \/ \E t \in Threads : SwapSources(t)
    \/ \E t \in Threads : SwapLastError(t)
    \/ \E t \in Handlers : ReadLock(t)
    \/ \E t \in Handlers : ReadGeneratedAt(t)
    \/ \E t \in Handlers : HzLastError(t)
    \/ \E t \in Handlers : ReadByDc(t)
    \/ \E t \in Handlers : ReadSources(t)
    \/ \E t \in Handlers : Respond(t)

SpecRefresh == RefreshInit /\ [][RefreshNext]_vars

\* --------------------------------- refresh_loop alone, any source may fail

\* The process runs without web traffic; a source may fail an attempt at
\* either call, or answer with any of its answers.
CycleInit ==
    /\ CacheInit
    /\ StoreInit
    /\ clock = 1
    /\ ncycles = 0
    /\ nrequests = 0
    /\ pc = [t \in Threads |-> IF t = "bg" THEN "loop" ELSE "off"]
    /\ local = [t \in Threads |-> NoLocal]
    /\ view = [t \in Threads |-> NoView]
    /\ view_writer = [t \in Threads |-> NoViewWriter]
    /\ upstream = [g \in DOMAIN GRAFANAS |-> AttemptOutcomes(g)]
    /\ FetchIdle
    /\ KeyIdle
    /\ MergeIdle
    /\ ReportIdle

CycleNext ==
    \/ BgLoop
    \/ FetchSource("bg")
    \/ PersistCommit("bg")
    \/ PersistRaise("bg")
    \/ SwapLock("bg")
    \/ SwapGeneratedAt("bg")
    \/ SwapByDc("bg")
    \/ SwapSources("bg")
    \/ SwapLastError("bg")
    \/ ExceptLock
    \/ ExceptLastError

SpecCycle == CycleInit /\ [][CycleNext]_vars

\* ------------------------------ fetch_from_grafana, statement by statement

\* fetch_from_grafana(g) is called: last_err = None, the loop starts at i = 1.
FetchInit ==
    /\ fetch_g \in DOMAIN GRAFANAS
    /\ fetch_pc = "attempt"
    /\ fetch_i = 1
    /\ fetch_met = <<>>
    /\ fetch_sleeps = <<>>
    /\ fetch_last_err = None
    /\ fetch_result = None
    /\ upstream = [g \in DOMAIN GRAFANAS |-> AttemptOutcomes(g)]
    /\ KeyIdle
    /\ MergeIdle
    /\ StoreInit
    /\ ReportIdle
    /\ CacheInit
    /\ clock = 1
    /\ ncycles = 0
    /\ nrequests = 0
    /\ pc = [t \in Threads |-> "off"]
    /\ local = [t \in Threads |-> NoLocal]
    /\ view = [t \in Threads |-> NoView]
    /\ view_writer = [t \in Threads |-> NoViewWriter]

\* Attempt i: _get_alerts and _list_silences both return; the records are
\* tagged and the function returns them with ok = True.
AttemptReturns(o) ==
    /\ fetch_pc = "attempt"
    /\ o.alerts_ok /\ o.silences_ok
    /\ fetch_met' = Append(fetch_met, o)
    /\ fetch_result' = [alerts |-> Tag(o.alerts, fetch_g), silences |-> Tag(o.silences, fetch_g),
                        ok |-> TRUE, err |-> None]
    /\ fetch_pc' = "returned"
    /\ UNCHANGED <<fetch_g, fetch_i, fetch_sleeps, fetch_last_err, outsideFetch>>

\* Attempt i: one of the two calls raises; `except Exception as e: last_err = e`.
AttemptRaises(o) ==
    /\ fetch_pc = "attempt"
    /\ ~(o.alerts_ok /\ o.silences_ok)
    /\ fetch_met' = Append(fetch_met, o)
    /\ fetch_last_err' = ErrText(fetch_g, o)
    /\ fetch_pc' = "except"
    /\ UNCHANGED <<fetch_g, fetch_i, fetch_sleeps, fetch_result, outsideFetch>>

\* `if i < attempts` with the test dropped: a delay after every failure.
ShouldSleep_always == TRUE

\* if i < attempts
ShouldSleep == fetch_i < Attempts

\* time.sleep(FETCH_RETRY_DELAY)
Delay ==
    /\ fetch_pc = "except"
    /\ ShouldSleep
    /\ fetch_sleeps' = Append(fetch_sleeps, fetch_i)
    /\ fetch_pc' = "next"
    /\ UNCHANGED <<fetch_g, fetch_i, fetch_met, fetch_last_err, fetch_result, outsideFetch>>

\* The test `i < attempts` fails: no delay.
NoDelay ==
    /\ fetch_pc = "except"
    /\ ~ShouldSleep
    /\ fetch_pc' = "next"
    /\ UNCHANGED <<fetch_g, fetch_i, fetch_met, fetch_sleeps, fetch_last_err, fetch_result, outsideFetch>>

\* `for i in range(1, attempts + 1)` has a next value.
NextAttempt ==
    /\ fetch_pc = "next"
    /\ fetch_i < Attempts
    /\ fetch_i' = fetch_i + 1
    /\ fetch_pc' = "attempt"
    /\ UNCHANGED <<fetch_g, fetch_met, fetch_sleeps, fetch_last_err, fetch_result, outsideFetch>>

\* The range is exhausted: return [], [], False, str(last_err).
Exhausted ==
    /\ fetch_pc = "next"
    /\ fetch_i >= Attempts
    /\ fetch_result' = [alerts |-> <<>>, silences |-> <<>>, ok |-> FALSE, err |-> fetch_last_err]
    /\ fetch_pc' = "returned"
    /\ UNCHANGED <<fetch_g, fetch_i, fetch_met, fetch_sleeps, fetch_last_err, outsideFetch>>

FetchNext ==
    \/ \E o \in upstream[fetch_g] : AttemptReturns(o)
    \/ \E o \in upstream[fetch_g] : AttemptRaises(o)
    \/ Delay
    \/ NoDelay
    \/ NextAttempt
    \/ Exhausted

SpecFetch == FetchInit /\ [][FetchNext]_vars

\* Every call on the network ends (REQUEST_TIMEOUT) and so does every
\* time.sleep: the thread that runs fetch_from_grafana keeps taking steps.
SpecFetchFair == SpecFetch /\ WF_vars(FetchNext)

\* ------------------------------------------ claims: the Snapshot Aggregator

\* The step on which thread t's refresh cycle ends in failure: refresh_loop
\* has handled the exception, or the exception has left api_alerts.
FailedCycleEnds(t) ==
    IF t = "bg"
    THEN pc[t] = "except_last_error" /\ pc'[t] = "sleep"
    ELSE pc[t] = "persist" /\ pc'[t] = "idle"

\* C4: when a refresh cycle fails at the snapshot write, in refresh_loop or
\* in a request handler, the cycle has written none of the cached view's
\* timestamp, per-site lists and per-source status, and when it ends the
\* cache's last_error holds the error of that cycle.
RefreshFailureRecorded ==
    [][\A t \in Threads :
          FailedCycleEnds(t) =>
             /\ cache_writer'.generated_at # local[t].cycle
             /\ cache_writer'.by_dc # local[t].cycle
             /\ cache_writer'.sources # local[t].cycle
             /\ CACHE'.last_error # None
             /\ CACHE'.last_error.cycle = local[t].cycle]_vars

\* The cycle of thread t is past its loop over the sources.
Fetched(t) == local[t].g > Len(GRAFANAS)

\* Both calls of the attempt fetch_from_grafana returned on went through.
Succeeded(outcome) == outcome.alerts_ok /\ outcome.silences_ok

\* The records of the sources that succeeded, tagged, in source order.
RECURSIVE FromSucceeded(_, _, _)
FromSucceeded(net, field, n) ==
    IF n = 0 THEN <<>>
    ELSE FromSucceeded(net, field, n - 1)
            \o (IF Succeeded(net[n]) THEN Tag(net[n][field], n) ELSE <<>>)

\* C5: whatever sources fail, the cycle goes on to the merge with exactly
\* the alerts and silences of the sources that succeeded; the per-source
\* status has one entry per configured source, ok with no error for a source
\* that succeeded (with or without records), not ok with the error text for
\* one that failed; and that status and the merge of that input are what the
\* cycle publishes.
SourceFailureIsolation ==
    \A t \in Threads :
        Fetched(t) =>
            /\ pc[t] \in {"persist", "swap_lock", "swap_generated_at", "swap_by_dc",
                          "swap_sources", "swap_last_error", "except_lock", "except_last_error"}
            /\ Len(local[t].sources) = Len(GRAFANAS)
            /\ \A g \in DOMAIN GRAFANAS :
                  /\ local[t].sources[g].name = GRAFANAS[g]
                  /\ local[t].sources[g].ok = Succeeded(local[t].net[g])
                  /\ local[t].sources[g].error =
                        IF Succeeded(local[t].net[g]) THEN None ELSE ErrText(g, local[t].net[g])
            /\ local[t].combined_alerts = FromSucceeded(local[t].net, "alerts", Len(GRAFANAS))
            /\ local[t].combined_silences = FromSucceeded(local[t].net, "silences", Len(GRAFANAS))
            /\ pc[t] = "swap_last_error" =>
                  /\ CACHE.sources = local[t].sources
                  /\ CACHE.by_dc = aggregate_by_dc(
                        FromSucceeded(local[t].net, "alerts", Len(GRAFANAS)),
                        SilenceMap(FromSucceeded(local[t].net, "silences", Len(GRAFANAS))))

\* A cycle in which the first source failed and the second answered with no
\* records has published: one entry not ok, one ok, nothing merged.
SourceFailureIsolationWitness ==
    /\ pc["bg"] = "swap_last_error"
    /\ ~local["bg"].sources[1].ok
    /\ local["bg"].sources[1].error # None
    /\ local["bg"].sources[2].ok
    /\ local["bg"].net[2].alerts = <<>>
    /\ CACHE.sources = local["bg"].sources
    /\ CACHE.by_dc = EmptyByDc

\* The rows of a table that a step appended.
Appended(before, after) == SubSeq(after, Len(before) + 1, Len(after))

\* C6: the snapshot write of a refresh cycle appends exactly one count row
\* per canonical site and for Unassigned and exactly one alert row per
\* NormalizedAlert of each bucket's merged list, all with one timestamp; each
\* count row's total is active + suppressed and is the number of alert rows
\* appended for that site; a write that fails appends nothing, and no other
\* step of the program touches the two tables.
SnapshotRowAccounting ==
    [][\A t \in Threads :
          /\ (pc[t] = "persist" /\ pc'[t] = "swap_lock") =>
                LET counts == Appended(dc_counts, dc_counts')
                    rows == Appended(alert_snapshots, alert_snapshots')
                    merged == local'[t].by_dc
                IN  /\ SubSeq(dc_counts', 1, Len(dc_counts)) = dc_counts
                    /\ SubSeq(alert_snapshots', 1, Len(alert_snapshots)) = alert_snapshots
                    /\ Len(counts) = Len(BucketOrder)
                    /\ \A i \in DOMAIN counts :
                          /\ counts[i].dc = BucketOrder[i]
                          /\ counts[i].ts = counts[1].ts
                          /\ counts[i].total = counts[i].active + counts[i].suppressed
                          /\ counts[i].total =
                                Len(SelectSeq(rows, LAMBDA r : r.dc = BucketOrder[i]))
                          /\ LET mine == SelectSeq(rows, LAMBDA r : r.dc = BucketOrder[i])
                             IN  /\ Len(mine) = Len(merged[BucketOrder[i]])
                                 /\ \A j \in DOMAIN mine :
                                       /\ mine[j].fingerprint = merged[BucketOrder[i]][j].fingerprint
                                       /\ mine[j].alertname = merged[BucketOrder[i]][j].alertname
                                       /\ mine[j].source = merged[BucketOrder[i]][j].sourceGrafana
                    /\ \A j \in DOMAIN rows :
                          /\ rows[j].ts = counts[1].ts
                          /\ rows[j].dc \in Buckets
          /\ (\A u \in Threads : ~(pc[u] = "persist" /\ pc'[u] = "swap_lock")) =>
                /\ dc_counts' = dc_counts
                /\ alert_snapshots' = alert_snapshots]_vars

\* A second cycle has written its snapshot after a first one did; its count
\* row of Unassigned has one active and one suppressed alert, and both alert
\* rows stand in the table with the row's timestamp.
SnapshotRowAccountingWitness ==
    /\ pc["bg"] = "swap_lock"
    /\ Len(dc_counts) = 2 * Len(BucketOrder)
    /\ \E i \in DOMAIN dc_counts :
          /\ i > Len(BucketOrder)
          /\ dc_counts[i].dc = "Unassigned"
          /\ dc_counts[i].active = 1
          /\ dc_counts[i].suppressed = 1
          /\ dc_counts[i].total = 2
          /\ Len(SelectSeq(alert_snapshots,
                           LAMBDA r : r.dc = "Unassigned" /\ r.ts = dc_counts[i].ts)) = 2

\* C9: whatever the interleaving of refresh cycles and readers, the
\* timestamp, per-site lists and per-source status a reader of api_alerts or
\* healthz answers with were all written by one cycle, and that cycle's swap
\* was complete (or they are all as constructed).
AtomicPublication ==
    \A t \in Handlers :
        pc[t] = "respond" =>
            /\ view_writer[t].by_dc = view_writer[t].generated_at
            /\ view_writer[t].sources = view_writer[t].generated_at
            /\ view_writer[t].generated_at \in swapped
            /\ view[t].generated_at = None <=> view_writer[t].generated_at = 0

\* A reader answers with the view of a cycle's swap while the next cycle is
\* waiting for the lock to swap its own.
AtomicPublicationWitness ==
    \E t \in Handlers :
        /\ pc[t] = "respond"
        /\ view_writer[t].generated_at > 0
        /\ view_writer[t].sources = view_writer[t].generated_at
        /\ view[t].by_dc # <<>>
        /\ \E u \in Threads \ {t} : pc[u] = "swap_lock" /\ local[u].cycle > view_writer[t].generated_at

\* The statements inside a `with CACHE_LOCK:` block: the four assignments
\* of the swap, the assignment of last_error, the reads of the two readers.
UnderLock ==
    {"swap_generated_at", "swap_by_dc", "swap_sources", "swap_last_error", "except_last_error",
     "read_generated_at", "read_by_dc", "read_sources",
     "hz_generated_at", "hz_last_error", "hz_sources", "hz_by_dc"}

\* The statements that call out: the per-source fetch with its retries and
\* delays, and the snapshot write.
CallingOut == {"fetch", "persist"}

\* C11: in every reachable state the thread that holds CACHE_LOCK is at a
\* read of the cached view or at an assignment to one of its fields; a
\* thread at a per-source fetch (retry delays included) or at the snapshot
\* write does not hold it, so a reader waiting for the lock while the other
\* threads are fetching, writing the snapshot or idle can take it.
LockDiscipline ==
    /\ CACHE_LOCK # "" => CACHE_LOCK \in Threads /\ pc[CACHE_LOCK] \in UnderLock
    /\ \A t \in Threads : pc[t] \in CallingOut => CACHE_LOCK # t
    /\ \A t \in Threads : pc[t] \in UnderLock => CACHE_LOCK = t
    /\ \A u \in Handlers :
          (/\ pc[u] \in {"read_lock", "hz_lock"}
           /\ \A t \in Threads \ {u} : pc[t] \notin UnderLock)
          => CanAcquire(u)

\* One handler reads the cached view under the lock while refresh_loop is
\* fetching and the other handler's forced refresh is at its snapshot write.
LockDisciplineWitness ==
    /\ pc["bg"] = "fetch"
    /\ local["bg"].g = 2
    /\ \E t, u \in Handlers :
          /\ pc[t] = "persist"
          /\ pc[u] = "read_by_dc"
          /\ CACHE_LOCK = u

\* The attempts made so far, all but the last, failed.
OnlyLastMaySucceed ==
    \A j \in 1..(Len(fetch_met) - 1) : ~Succeeded(fetch_met[j])

\* What fetch_from_grafana must have returned after the attempts it made.
ExpectedResult ==
    LET last == fetch_met[Len(fetch_met)]
    IN  IF Succeeded(last)
        THEN [alerts |-> Tag(last.alerts, fetch_g), silences |-> Tag(last.silences, fetch_g),
              ok |-> TRUE, err |-> None]
        ELSE [alerts |-> <<>>, silences |-> <<>>, ok |-> FALSE, err |-> ErrText(fetch_g, last)]

\* The safety half of C12, state by state.
BoundedRetrySafe ==
    /\ fetch_i \in 1..Attempts
    /\ Len(fetch_met) <= Attempts
    /\ OnlyLastMaySucceed
    /\ \A k \in DOMAIN fetch_sleeps :
          /\ fetch_sleeps[k] = k
          /\ k < Attempts
          /\ k <= Len(fetch_met) /\ ~Succeeded(fetch_met[k])
    /\ fetch_pc = "returned" =>
          /\ Len(fetch_met) >= 1
          /\ ~Succeeded(fetch_met[Len(fetch_met)]) => Len(fetch_met) = Attempts
          /\ Len(fetch_sleeps) = Len(fetch_met) - 1
          /\ fetch_result = ExpectedResult
          /\ LET r == fetch_from_grafana(fetch_g, fetch_met)
             IN  fetch_result = [alerts |-> r.alerts, silences |-> r.silences,
                                 ok |-> r.ok, err |-> r.err]

\* C12: whatever each attempt meets, fetch_from_grafana makes at most
\* FETCH_RETRIES + 1 attempts, returns on the first attempt in which both
\* calls succeed, sleeps once after every failed attempt but the last, and
\* returns in the end; when every attempt failed it returns no alerts, no
\* silences, ok = False and the last error, so alerts fetched in an attempt
\* whose silence call failed are not returned.
BoundedRetry == [](BoundedRetrySafe) /\ <>(fetch_pc = "returned")

\* Every attempt failed, the last one at the silence call after alerts had
\* been fetched: nothing is returned, and the delay was taken three times.
BoundedRetryWitness ==
    /\ fetch_pc = "returned"
    /\ Len(fetch_met) = Attempts
    /\ fetch_met[Attempts].alerts_ok
    /\ fetch_met[Attempts].alerts # <<>>
    /\ ~fetch_met[Attempts].silences_ok
    /\ fetch_result.alerts = <<>>
    /\ ~fetch_result.ok
    /\ fetch_result.err = ErrText(fetch_g, fetch_met[Attempts])
    /\ Len(fetch_sleeps) = FETCH_RETRIES

\* C13: for any input list, from any sources, every bucket of
\* aggregate_by_dc holds at most one record per identity, during the loop and
\* in the output list, and that record is one of the input observations of
\* that identity routed to that bucket (normalized, in the output), never a
\* mix of two observations.
Deduplicated ==
    \A b \in Buckets :
        /\ \A i, j \in DOMAIN grouped_maps[b] :
              i # j => grouped_maps[b][i][1] # grouped_maps[b][j][1]
        /\ \A i \in DOMAIN grouped_maps[b] :
              /\ grouped_maps[b][i][1] = alert_key(grouped_maps[b][i][2])
              /\ \E n \in DOMAIN all_alerts :
                    /\ all_alerts[n] = grouped_maps[b][i][2]
                    /\ InBucket(all_alerts[n], b)
        /\ merge_pc = "done" =>
              /\ \A i, j \in DOMAIN by_dc[b] :
                    i # j => alert_key(by_dc[b][i]) # alert_key(by_dc[b][j])
              /\ \A i \in DOMAIN by_dc[b] :
                    \E n \in DOMAIN all_alerts :
                        /\ by_dc[b][i] = normalize(all_alerts[n], MergeSilences)
                        /\ alert_key(all_alerts[n]) = alert_key(by_dc[b][i])
                        /\ InBucket(all_alerts[n], b)

\* Three different observations of one identity, from two sources, were
\* merged: Tehran's list holds one record.
DeduplicatedWitness ==
    /\ merge_pc = "done"
    /\ Len(all_alerts) = MaxAlerts
    /\ \A n \in DOMAIN all_alerts :
          /\ alert_key(all_alerts[n]) = alert_key(all_alerts[1])
          /\ InBucket(all_alerts[n], "Tehran")
    /\ \A m, n \in DOMAIN all_alerts : m # n => all_alerts[m] # all_alerts[n]
    /\ Len(by_dc["Tehran"]) = 1

\* Thread t starts to replace the cached view with its cycle's output.
StartsSwap(t) == pc[t] = "swap_generated_at" /\ pc'[t] = "swap_by_dc"

\* C14: a refresh cycle never replaces the cached view of a cycle that
\* fetched later: when a cycle starts its swap, it is not one of the cycles
\* whose fetch was already over when the cycle that published the current
\* view began.
NoStaleOverwrite ==
    [][\A t \in Threads :
          StartsSwap(t) => local[t].cycle \notin cache_writer.earlier]_vars

\* The whole seconds of the report window.
WindowSeconds == WholeSeconds(Instant(window[2]) - Instant(window[1]))

\* C15: for any snapshot history and any window [start, end), every detail
\* record of _detail_alerts has 0 <= duration_seconds <= the window's whole
\* seconds, also when the alert's observed end lies before the window's
\* start or before its own observed start.
DurationBounds ==
    window # <<>> =>
        \A d \in DetailRecords :
            /\ d[2].duration_seconds >= 0
            /\ d[2].duration_seconds <= WindowSeconds

\* One report holds a record whose observed end is before both the window's
\* start and its own start, with duration 0, and a record that spans the
\* whole window.
DurationBoundsWitness ==
    /\ window # <<>>
    /\ \E d \in DetailRecords :
          /\ Instant(d[2].end_utc) < Instant(window[1])
          /\ Instant(d[2].end_utc) < Instant(d[2].start_utc)
          /\ d[2].duration_seconds = 0
    /\ \E d \in DetailRecords :
          /\ d[2].duration_seconds = WindowSeconds
          /\ d[2].duration_seconds > 0

====
